---- MODULE Spec2Model ----
(***************************************************************************)
(* A model of the bk-cli API client layer: the Build/Pipeline/Job records  *)
(* and the derived build url (src/bk.py), the Buildkite client operations  *)
(* and the requests they issue (src/bk.py), and the build summary          *)
(* formatter (src/display.py).                                             *)
(*                                                                         *)
(* Strings are TLA+ strings; a character is a string of length one.        *)
(* Python's None is the empty tuple <<>> and a present optional value v is *)
(* the one-element tuple <<v>>.                                            *)
(***************************************************************************)
EXTENDS Integers, Sequences, FiniteSets, TLC

VARIABLES
    build,      \* the Build handed to Build.url / display_build
    shown,      \* what the last call on `build` produced
    pc,         \* where the running client operation is blocked
    call,       \* the running client operation and its arguments
    requests,   \* the HTTP requests the running operation has sent, in order
    responses,  \* the HTTP responses it has received, in order
    outcome     \* how the operation ended: a value or a raised exception

vars == <<build, shown, pc, call, requests, responses, outcome>>

----------------------------------------------------------------------------
(* Bounds of the model.                                                    *)

MaxJobs == 8
MaxEdges == 3
MaxCount == 2
MaxLimit == 2

----------------------------------------------------------------------------
(* Module constants of src/bk.py.                                          *)

BASE_URL == "https://buildkite.com/retool"

BUILD_FINISHED_STATES == <<"SKIPPED", "PASSED", "FAILED", "CANCELED">>

BUILD_RUNNING_STATES ==
    <<"CREATING", "RUNNING", "FAILING", "CANCELING", "BLOCKED", "SCHEDULED">>

JOB_FINISHED_STATES ==
    <<"BLOCKED_FAILED", "UNBLOCKED_FAILED", "FINISHED", "CANCELED",
      "TIMED_OUT", "SKIPPED">>

rest_base_url == "https://api.buildkite.com/v2"

graphql_base_url == "https://graphql.buildkite.com/v1"

\* Python's `x in list`.
InList(x, list) == \E i \in 1..Len(list) : list[i] = x

----------------------------------------------------------------------------
(* String helpers: what Python's str(int), format specs and rstrip do.     *)

Digit(d) == SubSeq("0123456789", d + 1, d + 1)

RECURSIVE NatToStr(_)
NatToStr(n) == IF n < 10 THEN Digit(n) ELSE NatToStr(n \div 10) \o Digit(n % 10)

\* str(n) / f"{n}" of an int.
IntToStr(n) == IF n < 0 THEN "-" \o NatToStr(-n) ELSE NatToStr(n)

RECURSIVE Spaces(_)
Spaces(k) == IF k <= 0 THEN "" ELSE " " \o Spaces(k - 1)

\* format(s, " <w"): left-aligned, space filled to width w, never cut.
PadRight(s, w) == s \o Spaces(w - Len(s))

\* format(s, " >w"): right-aligned, space filled to width w, never cut.
PadLeft(s, w) == Spaces(w - Len(s)) \o s

\* str.rstrip() on a string whose only whitespace is the space.
RECURSIVE RStrip(_)
RStrip(s) ==
    IF Len(s) > 0 /\ SubSeq(s, Len(s), Len(s)) = " "
    THEN RStrip(SubSeq(s, 1, Len(s) - 1))
    ELSE s

----------------------------------------------------------------------------
(* Domain model: Pipeline, Job, Build (src/bk.py).                         *)

Pipeline(name, color, slug) == [name |-> name, color |-> color, slug |-> slug]

Job(state, passed) == [state |-> state, passed |-> passed]

Build(number, commit_message, pipeline, state, jobs) ==
    [number |-> number, commit_message |-> commit_message,
     pipeline |-> pipeline, state |-> state, jobs |-> jobs]

\* Build.url with the "builds" path segment left out.
Build_url_NoSegment(self) ==
    BASE_URL \o "/" \o self.pipeline.slug \o "/" \o IntToStr(self.number)

\* Build.url
Build_url(self) ==
    BASE_URL \o "/" \o self.pipeline.slug \o "/builds/" \o IntToStr(self.number)

----------------------------------------------------------------------------
(* Build summary formatter (src/display.py).                               *)

Return(v) == [kind |-> "return", value |-> v]

Raise(exc, v) == [kind |-> exc, value |-> v]

NoOutcome == [kind |-> "none", value |-> ""]

\* sum(1 for job in jobs if job.state in JOB_FINISHED_STATES)
RECURSIVE CountFinished(_)
CountFinished(jobs) ==
    IF jobs = <<>> THEN 0
    ELSE (IF InList(Head(jobs).state, JOB_FINISHED_STATES) THEN 1 ELSE 0)
         + CountFinished(Tail(jobs))

\* int(num / den): the quotient cut, not rounded.
FormatFixed0_Cut(num, den) == IntToStr(num \div den)

\* format(num / den, ".0f") for num >= 0, den > 0.  num / den is the double
\* nearest the quotient, and ".0f" prints the integer nearest that double,
\* a tie going to the even integer.  For the quotients 100 * F / N met here
\* the double is a tie exactly when the quotient is (N is far below 2^52).
FormatFixed0(num, den) ==
    LET q == num \div den
        r == num % den
    IN  IntToStr(IF 2 * r < den THEN q
                 ELSE IF 2 * r > den THEN q + 1
                 ELSE IF q % 2 = 0 THEN q ELSE q + 1)

\* The first f-string of display_build: name and number columns.
DisplayPrefix(b) ==
    PadRight(b.pipeline.name, 50) \o " " \o PadRight(IntToStr(b.number), 10)

display_build(b) ==
    LET total_jobs == Len(b.jobs)
        finished_jobs == CountFinished(b.jobs)
    IN  IF total_jobs = 0
        THEN Raise("ZeroDivisionError", "division by zero")
        ELSE Return(DisplayPrefix(b)
                    \o RStrip(PadLeft(FormatFixed0(finished_jobs * 100, total_jobs), 6)
                              \o "% finished    "
                              \o PadRight("State: " \o b.state, 20)))

----------------------------------------------------------------------------
(* Inputs of the formatter and of Build.url.                               *)

SeqsUpTo(S, n) == UNION {[1..k -> S] : k \in 0..n}

JobInputs ==
    {Job("FINISHED", TRUE), Job("RUNNING", FALSE), Job("TIMED_OUT", FALSE)}

PipelineInputs ==
    {Pipeline("my-pipeline", "#ffffff", "my-pipeline"),
     Pipeline("Retool development dot tests", "#00ff00", "retool/my-pipeline")}

\* A build number with the state of that build.
BuildHeads == {<<7, "RUNNING">>, <<42, "PASSED">>}

BuildInputs ==
    {Build(h[1], "fix the build", p, h[2], js) :
        h \in BuildHeads, p \in PipelineInputs,
        js \in SeqsUpTo(JobInputs, MaxJobs)}

ClientIdle ==
    /\ pc = "idle"
    /\ call = [op |-> "none"]
    /\ requests = <<>>
    /\ responses = <<>>
    /\ outcome = NoOutcome

InitDisplay ==
    /\ build \in BuildInputs
    /\ shown = [op |-> "none", result |-> NoOutcome]
    /\ ClientIdle

clientVars == <<pc, call, requests, responses, outcome>>

\* display_build(build)
DisplayBuild ==
    /\ shown.op = "none"
    /\ shown' = [op |-> "display_build", result |-> display_build(build)]
    /\ UNCHANGED <<build, clientVars>>

\* build.url
GetUrl ==
    /\ shown.op = "none"
    /\ shown' = [op |-> "url", result |-> Return(Build_url(build))]
    /\ UNCHANGED <<build, clientVars>>

NextDisplay == DisplayBuild \/ GetUrl

SpecDisplay == InitDisplay /\ [][NextDisplay]_vars

----------------------------------------------------------------------------
(* Observers the properties read a rendered string with.                   *)

DigitVal(c) == CHOOSE d \in 0..9 : Digit(d) = c

IsDigits(s) ==
    /\ Len(s) > 0
    /\ \A i \in 1..Len(s) : \E d \in 0..9 : Digit(d) = SubSeq(s, i, i)

RECURSIVE ParseNat(_)
ParseNat(s) ==
    IF Len(s) = 0 THEN 0
    ELSE 10 * ParseNat(SubSeq(s, 1, Len(s) - 1)) + DigitVal(SubSeq(s, Len(s), Len(s)))

RECURSIVE LStrip(_)
LStrip(s) ==
    IF Len(s) > 0 /\ SubSeq(s, 1, 1) = " " THEN LStrip(Tail(s)) ELSE s

StartsWith(s, prefix) ==
    Len(s) >= Len(prefix) /\ SubSeq(s, 1, Len(prefix)) = prefix

\* The text of `s` after its first Len(prefix) characters.
After(s, prefix) == SubSeq(s, Len(prefix) + 1, Len(s))

\* `needle` occurs in `haystack`.
Contains(haystack, needle) ==
    \E i \in 1..(Len(haystack) - Len(needle) + 1) :
        SubSeq(haystack, i, i + Len(needle) - 1) = needle

UrlShown == shown.op = "url"

LineShown == shown.op = "display_build" /\ shown.result.kind = "return"

\* The six-character percentage column of a rendered line, and its number.
PercentField == SubSeq(After(shown.result.value, DisplayPrefix(build)), 1, 6)

PercentShown == ParseNat(LStrip(PercentField))

FinishedOf(b) ==
    Cardinality({i \in 1..Len(b.jobs) :
        b.jobs[i].state \in {"BLOCKED_FAILED", "UNBLOCKED_FAILED", "FINISHED",
                             "CANCELED", "TIMED_OUT", "SKIPPED"}})

Abs(x) == IF x < 0 THEN -x ELSE x

----------------------------------------------------------------------------
(* Properties of the domain model and of the formatter.                    *)

\* C1 (as stated): the url is base_url/slug/builds/number, and the build
\* 42 of the pipeline with slug "retool/my-pipeline" has the url
\* https://buildkite.com/retool/my-pipeline/builds/42.
C1_UrlAsStated ==
    UrlShown =>
        LET u == shown.result.value
            head == BASE_URL \o "/" \o build.pipeline.slug \o "/builds/"
        IN  /\ StartsWith(u, head)
            /\ IsDigits(After(u, head))
            /\ ParseNat(After(u, head)) = build.number
            /\ (build.pipeline.slug = "retool/my-pipeline" /\ build.number = 42
                  => u = "https://buildkite.com/retool/my-pipeline/builds/42")

\* C1 (amended): the url is base_url/slug/builds/number with base_url
\* https://buildkite.com/retool, whatever the other fields are: the build 42
\* of slug "my-pipeline" has the url
\* https://buildkite.com/retool/my-pipeline/builds/42, and the build 42 of
\* slug "retool/my-pipeline" has
\* https://buildkite.com/retool/retool/my-pipeline/builds/42.
C1_Url ==
    UrlShown =>
        LET u == shown.result.value
            head == "https://buildkite.com/retool/" \o build.pipeline.slug \o "/builds/"
        IN  /\ StartsWith(u, head)
            /\ IsDigits(After(u, head))
            /\ ParseNat(After(u, head)) = build.number
            /\ (build.pipeline.slug = "my-pipeline" /\ build.number = 42
                  => u = "https://buildkite.com/retool/my-pipeline/builds/42")
            /\ (build.pipeline.slug = "retool/my-pipeline" /\ build.number = 42
                  => u = "https://buildkite.com/retool/retool/my-pipeline/builds/42")

C1_Witness ==
    /\ UrlShown
    /\ build.pipeline.slug = "retool/my-pipeline"
    /\ build.number = 42
    /\ Len(build.jobs) = 2

\* C2: display_build of a build without jobs returns a line (it raises
\* nothing), and the line holds no infinite or NaN percentage.
C2_ZeroJobsRendered ==
    shown.op = "display_build" /\ build.jobs = <<>> =>
        /\ shown.result.kind = "return"
        /\ ~Contains(shown.result.value, "inf")
        /\ ~Contains(shown.result.value, "nan")

\* C3 (as stated): with N >= 1 jobs of which F are finished, the percentage
\* shown is 100 * F / N rounded to the nearest integer, a half going up, and
\* lies in 0..100.
C3_PercentHalfUp ==
    LineShown /\ Len(build.jobs) >= 1 =>
        LET N == Len(build.jobs)
            F == FinishedOf(build)
        IN  /\ IsDigits(LStrip(PercentField))
            /\ PercentShown = (200 * F + N) \div (2 * N)
            /\ PercentShown \in 0..100

\* C3 (amended): with N >= 1 jobs of which F are finished, the percentage
\* shown is an integer of 0..100 nearest to 100 * F / N, the even one of the
\* two when 100 * F / N lies halfway between them (F = 1, N = 8 shows 12);
\* the jobs [FINISHED, RUNNING] show 50.
C3_PercentHalfEven ==
    LineShown /\ Len(build.jobs) >= 1 =>
        LET N == Len(build.jobs)
            F == FinishedOf(build)
            p == PercentShown
        IN  /\ IsDigits(LStrip(PercentField))
            /\ p \in 0..100
            /\ 2 * Abs(100 * F - p * N) <= N
            /\ (2 * Abs(100 * F - p * N) = N => p % 2 = 0)
            /\ (F = 1 /\ N = 8 => p = 12)
            /\ (build.jobs = <<Job("FINISHED", TRUE), Job("RUNNING", FALSE)>> => p = 50)
            /\ StartsWith(After(shown.result.value, DisplayPrefix(build)),
                          PercentField \o "% finished    State: ")

C3_Witness ==
    /\ LineShown
    /\ Len(build.jobs) = 8
    /\ FinishedOf(build) = 1
    /\ PercentShown = 12

----------------------------------------------------------------------------
(* The Buildkite client (src/bk.py): requests, responses, raise_for_status. *)

\* Buildkite(org_name="retool", buildkite_token=...), as kite.py builds it.
org_name == "retool"

buildkite_token == "bk-token"

\* self.headers
Headers ==
    [Authorization |-> "Bearer " \o buildkite_token,
     ContentType |-> "application/json"]

\* post(self.graphql_base_url, headers=..., json={"query": ..., "variables": ...})
GraphqlRequest(query, variables) ==
    [method |-> "POST", url |-> graphql_base_url, headers |-> Headers,
     query |-> query, variables |-> variables]

\* get(url, headers=...) and post(url, headers=..., json=body)
RestRequest(method, url, body) ==
    [method |-> method, url |-> url, headers |-> Headers, json |-> body]

Http(status, body) == [status |-> status, body |-> body]

\* response.raise_for_status() raises for a 4xx or 5xx status.
IsHttpError(response) == response.status >= 400 /\ response.status < 600

\* _graphql_post, _rest_post and _rest_get once the response is there:
\* raise_for_status(), then the decoded body.
Unwrap(response) ==
    IF IsHttpError(response)
    THEN Raise("HTTPError", response.status)
    ELSE Return(response.body)

\* What an operation does when a response arrives: it ends with an outcome,
\* or sends the next request and blocks at `next`.
Finish(out) == [pc |-> "done", send |-> <<>>, outcome |-> out]

Send(next, request) == [pc |-> next, send |-> <<request>>, outcome |-> NoOutcome]

----------------------------------------------------------------------------
(* get_job_artifact_count and get_job_artifacts.                           *)

get_job_artifact_count_request(job_id) ==
    GraphqlRequest("getJobArtifactCount", [job_id |-> job_id])

\* result["data"]["job"]["artifacts"]["count"]; a job that is no command job
\* has no "artifacts" key.
get_job_artifact_count_result(response) ==
    LET result == Unwrap(response)
    IN  IF result.kind # "return" THEN result
        ELSE IF "artifacts" \notin DOMAIN result.value.data.job
             THEN Raise("KeyError", "artifacts")
             ELSE Return(result.value.data.job.artifacts.count)

\* re.search(pattern, string) for patterns made of literal characters, ".",
\* a leading "^" and a trailing "$": a match may start anywhere.
re_search(pattern, string) ==
    LET atStart == Len(pattern) > 0 /\ SubSeq(pattern, 1, 1) = "^"
        p1 == IF atStart THEN Tail(pattern) ELSE pattern
        atEnd == Len(p1) > 0 /\ SubSeq(p1, Len(p1), Len(p1)) = "$"
        body == IF atEnd THEN SubSeq(p1, 1, Len(p1) - 1) ELSE p1
    IN  \E i \in 1..(Len(string) + 1) :
            /\ atStart => i = 1
            /\ i + Len(body) - 1 <= Len(string)
            /\ atEnd => i + Len(body) - 1 = Len(string)
            /\ \A k \in 1..Len(body) :
                   \/ SubSeq(body, k, k) = "."
                   \/ SubSeq(body, k, k) = SubSeq(string, i + k - 1, i + k - 1)

\* The comprehension with the test on the filter inverted.
RECURSIVE FilterArtifacts_Inverted(_, _)
FilterArtifacts_Inverted(edges, regex_filter) ==
    IF edges = <<>> THEN <<>>
    ELSE (IF regex_filter = <<>>
             \/ ~re_search(regex_filter[1], Head(edges).node.downloadURL)
          THEN <<Head(edges).node>> ELSE <<>>)
         \o FilterArtifacts_Inverted(Tail(edges), regex_filter)

\* [edge["node"] for edge in edges
\*  if regex_filter is None or re.search(regex_filter, edge["node"]["downloadURL"])]
RECURSIVE FilterArtifacts(_, _)
FilterArtifacts(edges, regex_filter) ==
    IF edges = <<>> THEN <<>>
    ELSE (IF regex_filter = <<>>
             \/ re_search(regex_filter[1], Head(edges).node.downloadURL)
          THEN <<Head(edges).node>> ELSE <<>>)
         \o FilterArtifacts(Tail(edges), regex_filter)

get_job_artifacts_request(job_id, artifact_count) ==
    GraphqlRequest("getJobArtfacts",
                   [job_id |-> job_id, artifact_count |-> artifact_count])

\* get_job_artifacts that sends the count request again when it failed.
get_job_artifacts_on_count_Retry(c, response) ==
    LET artifact_count == get_job_artifact_count_result(response)
    IN  IF artifact_count.kind = "HTTPError"
        THEN Send("artifact_count", get_job_artifact_count_request(c.job_id))
        ELSE IF artifact_count.kind # "return" THEN Finish(artifact_count)
        ELSE IF artifact_count.value = 0 THEN Finish(Return(<<>>))
        ELSE Send("artifacts",
                  get_job_artifacts_request(c.job_id, artifact_count.value))

\* get_job_artifacts without the test for a count of zero.
get_job_artifacts_on_count_NoZeroTest(c, response) ==
    LET artifact_count == get_job_artifact_count_result(response)
    IN  IF artifact_count.kind # "return" THEN Finish(artifact_count)
        ELSE Send("artifacts",
                  get_job_artifacts_request(c.job_id, artifact_count.value))

\* get_job_artifacts asking for one artifact less than the count.
get_job_artifacts_on_count_OneLess(c, response) ==
    LET artifact_count == get_job_artifact_count_result(response)
    IN  IF artifact_count.kind # "return" THEN Finish(artifact_count)
        ELSE IF artifact_count.value = 0 THEN Finish(Return(<<>>))
        ELSE Send("artifacts",
                  get_job_artifacts_request(c.job_id, artifact_count.value - 1))

\* get_job_artifacts from the return of get_job_artifact_count to the second
\* _graphql_post: an exception of the count call propagates, a count of zero
\* returns [], any other count is the page size of the artifacts request.
get_job_artifacts_on_count(c, response) ==
    LET artifact_count == get_job_artifact_count_result(response)
    IN  IF artifact_count.kind # "return" THEN Finish(artifact_count)
        ELSE IF artifact_count.value = 0 THEN Finish(Return(<<>>))
        ELSE Send("artifacts",
                  get_job_artifacts_request(c.job_id, artifact_count.value))

\* get_job_artifacts from the second response to its return.
get_job_artifacts_on_artifacts(c, response) ==
    LET result == Unwrap(response)
    IN  IF result.kind # "return" THEN Finish(result)
        ELSE Finish(Return(FilterArtifacts(result.value.data.job.artifacts.edges,
                                           c.regex_filter)))

----------------------------------------------------------------------------
(* get_build_data, get_artifact_content, create_build.                     *)

get_build_data_request(pipeline_slug, build_id) ==
    RestRequest("GET",
                rest_base_url \o "/organizations/" \o org_name \o "/pipelines/"
                    \o pipeline_slug \o "/builds/" \o IntToStr(build_id)
                    \o "?include_retried_jobs=true",
                <<>>)

get_artifact_content_request(artifact_url) ==
    [method |-> "GET", url |-> artifact_url, headers |-> Headers,
     json |-> <<>>, allow_redirects |-> TRUE]

create_build_request(pipeline_slug, env) ==
    RestRequest("POST",
                rest_base_url \o "/organizations/" \o org_name \o "/pipelines/"
                    \o pipeline_slug \o "/builds",
                <<env>>)

\* get_build_data, get_artifact_content and create_build once the response
\* is there: raise_for_status(), then the body as it is.
rest_on_response(c, response) == Finish(Unwrap(response))

----------------------------------------------------------------------------
(* get_build_url_from_commit and get_build_url_from_branch.                *)

get_build_url_from_commit_request(commit_sha) ==
    GraphqlRequest("getBuildFromCommit", [commit_sha |-> commit_sha])

get_build_url_from_branch_request(branch) ==
    GraphqlRequest("getBuildFromBranch", [branch |-> branch])

\* get_build_url_from_commit returning the url of the last edge.
get_build_url_from_commit_on_response_Last(c, response) ==
    LET result == Unwrap(response)
    IN  IF result.kind # "return" THEN Finish(result)
        ELSE LET edges == result.value.data.pipeline.builds.edges
             IN  IF edges = <<>>
                 THEN Finish(Raise("BuildkiteNotFoundException",
                                   "No build found for commit " \o c.commit_sha))
                 ELSE Finish(Return(edges[Len(edges)].node.url))

get_build_url_from_commit_on_response(c, response) ==
    LET result == Unwrap(response)
    IN  IF result.kind # "return" THEN Finish(result)
        ELSE LET edges == result.value.data.pipeline.builds.edges
             IN  IF edges = <<>>
                 THEN Finish(Raise("BuildkiteNotFoundException",
                                   "No build found for commit " \o c.commit_sha))
                 ELSE Finish(Return(edges[1].node.url))

get_build_url_from_branch_on_response(c, response) ==
    LET result == Unwrap(response)
    IN  IF result.kind # "return" THEN Finish(result)
        ELSE LET edges == result.value.data.pipeline.builds.edges
             IN  IF edges = <<>>
                 THEN Finish(Raise("BuildkiteNotFoundException",
                                   "No build found for branch " \o c.branch))
                 ELSE Finish(Return(edges[1].node.url))

----------------------------------------------------------------------------
(* get_user_builds.                                                        *)

\* The state filter with the two cases of show_finished exchanged.
state_filters_Swapped(show_finished) ==
    IF show_finished THEN BUILD_RUNNING_STATES ELSE <<>>

\* state_filters of get_user_builds
state_filters(show_finished) ==
    IF show_finished THEN <<>> ELSE BUILD_RUNNING_STATES

get_user_builds_request(limit, show_finished) ==
    GraphqlRequest("GetUserBuilds",
                   [limit |-> limit, state_filter |-> state_filters(show_finished)])

\* The inner loop: one Job per job edge, appended in order.
RECURSIVE TranslateJobs(_)
TranslateJobs(job_edges) ==
    IF job_edges = <<>> THEN <<>>
    ELSE <<Job(Head(job_edges).node.state, Head(job_edges).node.passed)>>
         \o TranslateJobs(Tail(job_edges))

\* The body of the outer loop: the Build of one build node.
TranslateBuild(build_node) ==
    Build(build_node.number, build_node.message,
          Pipeline(build_node.pipeline.name, build_node.pipeline.color,
                   build_node.pipeline.slug),
          build_node.state, TranslateJobs(build_node.jobs.edges))

\* The outer loop putting each Build in front of the ones before it.
RECURSIVE TranslateBuilds_Prepend(_)
TranslateBuilds_Prepend(build_edges) ==
    IF build_edges = <<>> THEN <<>>
    ELSE TranslateBuilds_Prepend(Tail(build_edges))
         \o <<TranslateBuild(Head(build_edges).node)>>

\* The outer loop: one Build per build edge, appended in order.
RECURSIVE TranslateBuilds(_)
TranslateBuilds(build_edges) ==
    IF build_edges = <<>> THEN <<>>
    ELSE <<TranslateBuild(Head(build_edges).node)>>
         \o TranslateBuilds(Tail(build_edges))

get_user_builds_on_response(c, response) ==
    LET result == Unwrap(response)
    IN  IF result.kind # "return" THEN Finish(result)
        ELSE Finish(Return(TranslateBuilds(result.value.data.viewer.user.builds.edges)))

----------------------------------------------------------------------------
(* Arguments of the calls and responses of the service.                    *)

JobIds == {"job-1", "job-2"}

RegexFilters == {<<>>, <<"">>, <<"log">>, <<"^/a">>, <<".png$">>}

ArtifactUrls == {"/a.log", "/b.png", "/log/c.png"}

CommitShas == {"abc123", "0f9e7d"}

Branches == {"main", "fix/ci"}

BuildPageUrls ==
    {"https://buildkite.com/retool/retool-development-dot-tests/builds/1",
     "https://buildkite.com/retool/retool-development-dot-tests/builds/2"}

PipelineSlugs == {"my-pipeline"}

BuildIds == {7, 42}

Envs == {[commit |-> "HEAD", branch |-> "main"]}

JobNode(state, passed) == [node |-> [state |-> state, passed |-> passed]]

BuildNode(number, message, state, job_edges) ==
    [pipeline |-> [name |-> "Dev tests", color |-> "#00ff00", slug |-> "dev-tests"],
     message |-> message, number |-> number, state |-> state,
     jobs |-> [edges |-> job_edges]]

BuildNodes ==
    {BuildNode(11, "add filter", "RUNNING",
               <<JobNode("FINISHED", TRUE), JobNode("RUNNING", FALSE)>>),
     BuildNode(12, "bump deps", "SCHEDULED", <<>>),
     BuildNode(9, "fix typo", "PASSED", <<JobNode("FINISHED", TRUE)>>),
     BuildNode(8, "wip", "FAILED",
               <<JobNode("TIMED_OUT", FALSE), JobNode("FINISHED", TRUE)>>)}

ErrorStatuses == {401, 500}

ErrorResponses == {Http(st, [message |-> "error"]) : st \in ErrorStatuses}

CountResponses ==
    {Http(200, [data |-> [job |-> [artifacts |-> [count |-> n]]]]) : n \in 0..MaxCount}
    \cup {Http(200, [data |-> [job |-> <<>>]])}
    \cup ErrorResponses

ArtifactsResponses ==
    {Http(200, [data |-> [job |-> [artifacts |-> [edges |-> es]]]]) :
        es \in SeqsUpTo({[node |-> [downloadURL |-> u]] : u \in ArtifactUrls}, MaxEdges)}
    \cup ErrorResponses

BuildUrlResponses ==
    {Http(200, [data |-> [pipeline |-> [builds |-> [edges |-> es]]]]) :
        es \in SeqsUpTo({[node |-> [url |-> u]] : u \in BuildPageUrls}, MaxEdges)}
    \cup ErrorResponses

UserBuildsResponses ==
    {Http(200, [data |-> [viewer |-> [user |-> [builds |-> [edges |-> es]]]]]) :
        es \in SeqsUpTo({[node |-> n] : n \in BuildNodes}, MaxEdges)}
    \cup ErrorResponses

RestResponses ==
    {Http(200, [id |-> "b1", number |-> 7]), Http(201, [id |-> "b2", number |-> 8])}
    \cup ErrorResponses

----------------------------------------------------------------------------
(* The client as a state machine: a call sends its first request and       *)
(* blocks; each response runs the operation on to its next request or to   *)
(* its end.                                                                *)

Init ==
    /\ build = Build(7, "fix the build", Pipeline("my-pipeline", "#ffffff", "my-pipeline"),
                     "RUNNING", <<>>)
    /\ shown = [op |-> "none", result |-> NoOutcome]
    /\ ClientIdle

Start(c, next, request) ==
    /\ pc' = next
    /\ call' = c
    /\ requests' = <<request>>
    /\ responses' = <<>>
    /\ outcome' = NoOutcome
    /\ UNCHANGED <<build, shown>>

Receive(response, step) ==
    /\ responses' = Append(responses, response)
    /\ pc' = step.pc
    /\ requests' = requests \o step.send
    /\ outcome' = step.outcome
    /\ UNCHANGED <<build, shown, call>>

CallGetJobArtifactCount ==
    /\ pc = "idle"
    /\ \E job_id \in JobIds :
           Start([op |-> "get_job_artifact_count", job_id |-> job_id],
                 "count", get_job_artifact_count_request(job_id))

RecvJobArtifactCount ==
    /\ pc = "count"
    /\ \E response \in CountResponses :
           Receive(response, Finish(get_job_artifact_count_result(response)))

CallGetJobArtifacts ==
    /\ pc = "idle"
    /\ \E job_id \in JobIds, regex_filter \in RegexFilters :
           Start([op |-> "get_job_artifacts", job_id |-> job_id,
                  regex_filter |-> regex_filter],
                 "artifact_count", get_job_artifact_count_request(job_id))

RecvArtifactCount ==
    /\ pc = "artifact_count"
    /\ \E response \in CountResponses :
           Receive(response, get_job_artifacts_on_count(call, response))

RecvArtifacts ==
    /\ pc = "artifacts"
    /\ \E response \in ArtifactsResponses :
           Receive(response, get_job_artifacts_on_artifacts(call, response))

CallGetBuildData ==
    /\ pc = "idle"
    /\ \E pipeline_slug \in PipelineSlugs, build_id \in BuildIds :
           Start([op |-> "get_build_data", pipeline_slug |-> pipeline_slug,
                  build_id |-> build_id],
                 "rest", get_build_data_request(pipeline_slug, build_id))

CallGetArtifactContent ==
    /\ pc = "idle"
    /\ \E artifact_url \in ArtifactUrls :
           Start([op |-> "get_artifact_content", artifact_url |-> artifact_url],
                 "rest", get_artifact_content_request(artifact_url))

CallCreateBuild ==
    /\ pc = "idle"
    /\ \E pipeline_slug \in PipelineSlugs, env \in Envs :
           Start([op |-> "create_build", pipeline_slug |-> pipeline_slug, env |-> env],
                 "rest", create_build_request(pipeline_slug, env))

RecvRest ==
    /\ pc = "rest"
    /\ \E response \in RestResponses :
           Receive(response, rest_on_response(call, response))

CallGetBuildUrlFromCommit ==
    /\ pc = "idle"
    /\ \E commit_sha \in CommitShas :
           Start([op |-> "get_build_url_from_commit", commit_sha |-> commit_sha],
                 "commit", get_build_url_from_commit_request(commit_sha))

RecvCommit ==
    /\ pc = "commit"
    /\ \E response \in BuildUrlResponses :
           Receive(response, get_build_url_from_commit_on_response(call, response))

CallGetBuildUrlFromBranch ==
    /\ pc = "idle"
    /\ \E branch \in Branches :
           Start([op |-> "get_build_url_from_branch", branch |-> branch],
                 "branch", get_build_url_from_branch_request(branch))

RecvBranch ==
    /\ pc = "branch"
    /\ \E response \in BuildUrlResponses :
           Receive(response, get_build_url_from_branch_on_response(call, response))

CallGetUserBuilds ==
    /\ pc = "idle"
    /\ \E limit \in 1..MaxLimit, show_finished \in BOOLEAN :
           Start([op |-> "get_user_builds", limit |-> limit,
                  show_finished |-> show_finished],
                 "user_builds", get_user_builds_request(limit, show_finished))

RecvUserBuilds ==
    /\ pc = "user_builds"
    /\ \E response \in UserBuildsResponses :
           Receive(response, get_user_builds_on_response(call, response))

\* The operation has returned or raised; the client is called again.
Done ==
    /\ pc = "done"
    /\ pc' = "idle"
    /\ call' = [op |-> "none"]
    /\ requests' = <<>>
    /\ responses' = <<>>
    /\ outcome' = NoOutcome
    /\ UNCHANGED <<build, shown>>

Next ==
    \/ CallGetJobArtifactCount
    \/ RecvJobArtifactCount
    \/ CallGetJobArtifacts
    \/ RecvArtifactCount
    \/ RecvArtifacts
    \/ CallGetBuildData
    \/ CallGetArtifactContent
    \/ CallCreateBuild
    \/ RecvRest
    \/ CallGetBuildUrlFromCommit
    \/ RecvCommit
    \/ CallGetBuildUrlFromBranch
    \/ RecvBranch
    \/ CallGetUserBuilds
    \/ RecvUserBuilds
    \/ Done

Spec == Init /\ [][Next]_vars

----------------------------------------------------------------------------
(* Observers of a client operation.                                        *)

Succeeded(i) == i <= Len(responses) /\ ~IsHttpError(responses[i])

Running(op) == call.op = op

Ended(op) == call.op = op /\ pc = "done"

\* The count the first response of get_job_artifacts reports, as <<n>>, or
\* <<>> when it reports none.
CountReported ==
    IF /\ Succeeded(1)
       /\ "artifacts" \in DOMAIN responses[1].body.data.job
    THEN <<responses[1].body.data.job.artifacts.count>>
    ELSE <<>>

RunningStates == {"CREATING", "RUNNING", "FAILING", "CANCELING", "BLOCKED", "SCHEDULED"}

\* The i-th of the positions in 1..n that satisfy Keep, counted from 1.
KeptIndex(Keep(_), n, k) ==
    CHOOSE i \in 1..n :
        Keep(i) /\ Cardinality({j \in 1..i : Keep(j)}) = k

----------------------------------------------------------------------------
(* Properties of the client operations.                                    *)

\* C4: after a successful request, get_build_url_from_commit and
\* get_build_url_from_branch raise BuildkiteNotFoundException exactly when
\* the edge list is empty, the message holds the queried commit or branch,
\* and with a non-empty list they return the url of the first edge.
C4_NotFoundIffNoEdges ==
    /\ pc = "done"
    /\ call.op \in {"get_build_url_from_commit", "get_build_url_from_branch"}
    /\ Succeeded(1)
    => LET edges == responses[1].body.data.pipeline.builds.edges
           key == IF call.op = "get_build_url_from_commit"
                  THEN call.commit_sha ELSE call.branch
       IN  /\ outcome.kind = "BuildkiteNotFoundException" <=> edges = <<>>
           /\ edges = <<>> => Contains(outcome.value, key)
           /\ edges # <<>> => outcome = Return(edges[1].node.url)
           /\ Len(requests) = 1
           /\ requests[1].variables =
                  (IF call.op = "get_build_url_from_commit"
                   THEN [commit_sha |-> key] ELSE [branch |-> key])

C4_Witness ==
    /\ Ended("get_build_url_from_commit")
    /\ call.commit_sha = "abc123"
    /\ Succeeded(1)
    /\ responses[1].body.data.pipeline.builds.edges = <<>>
    /\ outcome.kind = "BuildkiteNotFoundException"
    /\ Contains(outcome.value, "abc123")

\* C5 (as stated): whatever the response is, get_user_builds without
\* show_finished returns only builds in a running or pending state, with
\* show_finished it returns the builds in the order of the response, and
\* the result never has more than limit elements.
C5_FilteredAndTruncated ==
    Ended("get_user_builds") /\ Succeeded(1) =>
        LET edges == responses[1].body.data.viewer.user.builds.edges
            builds == outcome.value
        IN  /\ ~call.show_finished =>
                  \A i \in 1..Len(builds) : builds[i].state \in RunningStates
            /\ call.show_finished =>
                  /\ Len(builds) = Len(edges)
                  /\ \A i \in 1..Len(builds) : builds[i].number = edges[i].node.number
            /\ Len(builds) <= call.limit

\* The response keeps to the page size and the state filter of the request
\* (an empty filter is no filter).
Honoured ==
    LET edges == responses[1].body.data.viewer.user.builds.edges
        variables == requests[1].variables
    IN  /\ Len(edges) <= variables.limit
        /\ variables.state_filter # <<>> =>
              \A i \in 1..Len(edges) :
                  InList(edges[i].node.state, variables.state_filter)

\* C5 (amended): get_user_builds asks the service for at most limit builds
\* and, without show_finished, for the running or pending states only (with
\* show_finished, for no state in particular); it returns one build per
\* edge of the response, in the order of the response, and filters or cuts
\* nothing itself.  So for every response that keeps to the request, the
\* result without show_finished holds only running or pending builds, and
\* the result has at most limit elements.
C5_FilterIsTheRequest ==
    Ended("get_user_builds") /\ Succeeded(1) =>
        LET edges == responses[1].body.data.viewer.user.builds.edges
            builds == outcome.value
            variables == requests[1].variables
        IN  /\ variables.limit = call.limit
            /\ ~call.show_finished =>
                  {variables.state_filter[i] : i \in 1..Len(variables.state_filter)}
                      = RunningStates
            /\ call.show_finished => variables.state_filter = <<>>
            /\ Len(builds) = Len(edges)
            /\ \A i \in 1..Len(builds) :
                  /\ builds[i].number = edges[i].node.number
                  /\ builds[i].state = edges[i].node.state
            /\ Honoured =>
                  /\ ~call.show_finished =>
                        \A i \in 1..Len(builds) : builds[i].state \in RunningStates
                  /\ Len(builds) <= call.limit

C5_Witness ==
    /\ Ended("get_user_builds")
    /\ Succeeded(1)
    /\ ~call.show_finished
    /\ call.limit = 2
    /\ Honoured
    /\ Len(outcome.value) = 2
    /\ outcome.value[1].state = "SCHEDULED"
    /\ outcome.value[2].state = "RUNNING"

\* C6: when the count reported is zero, get_job_artifacts returns the empty
\* sequence, and the one request of the call is the count request: no
\* artifacts request is sent.
C6_ZeroCountOneRequest ==
    Running("get_job_artifacts") /\ CountReported = <<0>> =>
        /\ pc = "done"
        /\ outcome = Return(<<>>)
        /\ Len(requests) = 1
        /\ Len(responses) = 1
        /\ requests[1].query = "getJobArtifactCount"

C6_Witness ==
    /\ Ended("get_job_artifacts")
    /\ CountReported = <<0>>
    /\ outcome = Return(<<>>)
    /\ Len(requests) = 1

\* C7: for a count other than zero, get_job_artifacts with a regex_filter
\* returns the artifacts of the response whose download URL the pattern
\* matches, each as often as the response holds it and in the order of the
\* response; without a regex_filter it returns all of them, in that order.
C7_FilterKeepsMatchesInOrder ==
    Ended("get_job_artifacts") /\ Succeeded(1) /\ Succeeded(2) =>
        LET edges == responses[2].body.data.job.artifacts.edges
            got == outcome.value
            Keep(i) == \/ call.regex_filter = <<>>
                       \/ re_search(call.regex_filter[1], edges[i].node.downloadURL)
        IN  /\ outcome.kind = "return"
            /\ Len(got) = Cardinality({i \in 1..Len(edges) : Keep(i)})
            /\ \A k \in 1..Len(got) : got[k] = edges[KeptIndex(Keep, Len(edges), k)].node
            /\ call.regex_filter = <<>> =>
                  /\ Len(got) = Len(edges)
                  /\ \A i \in 1..Len(edges) : got[i] = edges[i].node
            /\ (/\ call.regex_filter = <<"log">>
                /\ Len(edges) = 3
                /\ edges[1].node.downloadURL = "/a.log"
                /\ edges[2].node.downloadURL = "/b.png"
                /\ edges[3].node.downloadURL = "/a.log")
               => got = <<[downloadURL |-> "/a.log"], [downloadURL |-> "/a.log"]>>
            /\ (/\ call.regex_filter = <<".png$">>
                /\ Len(edges) = 3
                /\ edges[1].node.downloadURL = "/log/c.png"
                /\ edges[2].node.downloadURL = "/a.log"
                /\ edges[3].node.downloadURL = "/b.png")
               => got = <<[downloadURL |-> "/log/c.png"], [downloadURL |-> "/b.png"]>>

C7_Witness ==
    /\ Ended("get_job_artifacts")
    /\ Succeeded(2)
    /\ call.regex_filter = <<"log">>
    /\ Len(responses[2].body.data.job.artifacts.edges) = 3
    /\ outcome.value = <<[downloadURL |-> "/a.log"], [downloadURL |-> "/a.log"]>>

\* C8: a response with an error status ends the operation with that error:
\* it is the last response, the request it answers is the last request (it
\* is not sent again, no further request follows), and the outcome is the
\* HTTP error of that response, not a value or a not-found error.
C8_HttpErrorEndsOperation ==
    /\ \A i \in 1..Len(responses) :
           IsHttpError(responses[i]) =>
               /\ i = Len(responses)
               /\ Len(requests) = i
               /\ pc = "done"
               /\ outcome = Raise("HTTPError", responses[i].status)
    /\ \A i, j \in 1..Len(requests) : i # j => requests[i] # requests[j]
    /\ outcome.kind = "HTTPError" =>
           Len(responses) > 0 /\ IsHttpError(responses[Len(responses)])

C8_Witness ==
    /\ Ended("get_job_artifacts")
    /\ Len(responses) = 1
    /\ IsHttpError(responses[1])
    /\ Len(requests) = 1
    /\ outcome = Raise("HTTPError", 500)

\* C9: get_user_builds returns one Build per edge of the response, in the
\* same order; the i-th Build has the number, message, state and pipeline
\* of the i-th node, and one Job per job edge of that node, in the same
\* order, with the state and passed of that job node.
C9_OneBuildPerEdge ==
    Ended("get_user_builds") /\ Succeeded(1) =>
        LET edges == responses[1].body.data.viewer.user.builds.edges
            builds == outcome.value
        IN  /\ outcome.kind = "return"
            /\ Len(builds) = Len(edges)
            /\ \A i \in 1..Len(edges) :
                  LET node == edges[i].node
                      b == builds[i]
                  IN  /\ b.number = node.number
                      /\ b.commit_message = node.message
                      /\ b.state = node.state
                      /\ b.pipeline.name = node.pipeline.name
                      /\ b.pipeline.color = node.pipeline.color
                      /\ b.pipeline.slug = node.pipeline.slug
                      /\ Len(b.jobs) = Len(node.jobs.edges)
                      /\ \A k \in 1..Len(b.jobs) :
                            /\ b.jobs[k].state = node.jobs.edges[k].node.state
                            /\ b.jobs[k].passed = node.jobs.edges[k].node.passed

C9_Witness ==
    /\ Ended("get_user_builds")
    /\ Succeeded(1)
    /\ Len(outcome.value) = 3
    /\ outcome.value[1].number = 8
    /\ outcome.value[2].number = 11
    /\ outcome.value[3].number = 12
    /\ outcome.value[1].jobs = <<Job("TIMED_OUT", FALSE), Job("FINISHED", TRUE)>>

\* C10: when the count reported is c, not zero, get_job_artifacts sends two
\* requests: the count request with the job_id of the call and then one
\* artifacts request with that job_id and page size c.  A request is sent
\* only when every earlier one is answered, so the artifacts request follows
\* the count response.
C10_CountThenArtifacts ==
    Running("get_job_artifacts") =>
        /\ Len(requests) >= 1
        /\ requests[1].query = "getJobArtifactCount"
        /\ requests[1].variables = [job_id |-> call.job_id]
        /\ Len(requests) <= Len(responses) + 1
        /\ Len(responses) = 0 => Len(requests) = 1
        /\ CountReported # <<>> /\ CountReported # <<0>> =>
              /\ Len(requests) = 2
              /\ requests[2].query = "getJobArtfacts"
              /\ requests[2].variables =
                     [job_id |-> call.job_id, artifact_count |-> CountReported[1]]

C10_Witness ==
    /\ Ended("get_job_artifacts")
    /\ CountReported = <<2>>
    /\ Len(requests) = 2
    /\ Len(responses) = 2
    /\ requests[2].variables = [job_id |-> "job-2", artifact_count |-> 2]

====
